---- MODULE Spec2Model ----
(***************************************************************************)
(* Number Validator Bot (src/bot.py): per-caller sessions, the text and    *)
(* document handlers, phone-number normalisation and extraction, the       *)
(* batch check orchestrator process_numbers with its filter/combine        *)
(* rules, and the report generator.                                        *)
(*                                                                         *)
(* Strings of the program are sequences of one-character strings, so that  *)
(* strip, split, startswith and lstrip are computed, not assumed.          *)
(* Handlers are coroutines: a step of the model runs one handler from one  *)
(* await to the next, which is where asyncio may switch to another one.    *)
(*                                                                         *)
(* When the Application starts a handler is the library's decision, not    *)
(* the program's: main() builds it with the builder's defaults and adds    *)
(* the handlers with theirs.  The model lets a handler start at any await  *)
(* of another.  An Application that handles one update at a time gives     *)
(* only the behaviours in which a handler ends before the next starts:     *)
(* what holds of all behaviours here holds of those, but a state reached   *)
(* here by two suspended handlers is reached only if updates are handled   *)
(* concurrently.                                                           *)
(***************************************************************************)
EXTENDS Integers, Sequences, FiniteSets, TLC

(***************************************************************************)
(* Program constants.                                                      *)
(***************************************************************************)
\* batch_size = 10 in process_numbers
batch_size == 10

\* the cap of handle_text_message and handle_document: numbers[:1000]
MAX_NUMBERS == 1000

\* Python's None; no function of the program returns an empty string or an
\* empty record where it may return None.
None == <<>>

VALID_COUNTRY_CODES == {
    <<"7">>, <<"2","0">>, <<"3","3">>, <<"4","4">>, <<"4","9">>, <<"5","5">>,
    <<"8","1">>, <<"8","2">>, <<"8","6">>, <<"9","1">>, <<"9","2">>,
    <<"9","3">>, <<"9","4">>, <<"9","8">>, <<"2","1","2">>, <<"2","1","3">>,
    <<"2","1","6">>, <<"2","1","8">>, <<"2","2","0">>, <<"2","2","1">>,
    <<"2","2","2">>, <<"2","2","3">>, <<"2","2","4">>, <<"2","2","5">>,
    <<"2","2","6">>, <<"2","2","7">>, <<"2","2","8">>, <<"2","2","9">>,
    <<"2","3","0">>, <<"2","3","1">>, <<"2","3","2">>, <<"2","3","3">>,
    <<"2","3","4">>, <<"2","3","5">>, <<"2","3","6">>, <<"2","3","7">>,
    <<"2","3","8">>, <<"2","3","9">>, <<"2","4","0">>, <<"2","4","1">>,
    <<"2","4","2">>, <<"2","4","3">>, <<"2","4","4">>, <<"2","4","5">>,
    <<"2","4","6">>, <<"2","4","7">>, <<"2","4","8">>, <<"2","4","9">>,
    <<"2","5","0">>, <<"2","5","1">>, <<"2","5","2">>, <<"2","5","3">>,
    <<"2","5","4">>, <<"2","5","5">>, <<"2","5","6">>, <<"2","5","7">>,
    <<"2","5","8">>, <<"2","5","9">>, <<"2","6","0">>, <<"2","6","1">>,
    <<"2","6","2">>, <<"2","6","3">>, <<"2","6","4">>, <<"2","6","5">>,
    <<"2","6","6">>, <<"2","6","7">>, <<"2","6","8">>, <<"2","6","9">>,
    <<"2","9","0">>, <<"2","9","1">>, <<"2","9","7">>, <<"2","9","8">>,
    <<"2","9","9">>, <<"3","5","0">>, <<"3","5","1">>, <<"3","5","2">>,
    <<"3","5","3">>, <<"3","5","4">>, <<"3","5","5">>, <<"3","5","6">>,
    <<"3","5","7">>, <<"3","5","8">>, <<"3","5","9">>, <<"3","7","0">>,
    <<"3","7","1">>, <<"3","7","2">>, <<"3","7","3">>, <<"3","7","4">>,
    <<"3","7","5">>, <<"3","7","6">>, <<"3","7","7">>, <<"3","7","8">>,
    <<"3","7","9">>, <<"3","8","0">>, <<"3","8","1">>, <<"3","8","2">>,
    <<"3","8","3">>, <<"3","8","5">>, <<"3","8","6">>, <<"3","8","7">>,
    <<"3","8","9">>, <<"4","2","0">>, <<"4","2","1">>, <<"4","2","3">>,
    <<"5","0","0">>, <<"5","0","1">>, <<"5","0","2">>, <<"5","0","3">>,
    <<"5","0","4">>, <<"5","0","5">>, <<"5","0","6">>, <<"5","0","7">>,
    <<"5","0","8">>, <<"5","0","9">>, <<"5","9","0">>, <<"5","9","1">>,
    <<"5","9","2">>, <<"5","9","3">>, <<"5","9","4">>, <<"5","9","5">>,
    <<"5","9","6">>, <<"5","9","7">>, <<"5","9","8">>, <<"5","9","9">>,
    <<"6","7","0">>, <<"6","7","2">>, <<"6","7","3">>, <<"6","7","4">>,
    <<"6","7","5">>, <<"6","7","6">>, <<"6","7","7">>, <<"6","7","8">>,
    <<"6","7","9">>, <<"6","8","0">>, <<"6","8","1">>, <<"6","8","2">>,
    <<"6","8","3">>, <<"6","8","5">>, <<"6","8","6">>, <<"6","8","7">>,
    <<"6","8","8">>, <<"6","8","9">>, <<"6","9","0">>, <<"6","9","1">>,
    <<"6","9","2">>, <<"8","5","0">>, <<"8","5","2">>, <<"8","5","3">>,
    <<"8","5","5">>, <<"8","5","6">>, <<"8","8","0">>, <<"8","8","6">>,
    <<"9","6","0">>, <<"9","6","1">>, <<"9","6","2">>, <<"9","6","3">>,
    <<"9","6","4">>, <<"9","6","5">>, <<"9","6","6">>, <<"9","6","7">>,
    <<"9","6","8">>, <<"9","7","0">>, <<"9","7","1">>, <<"9","7","2">>,
    <<"9","7","3">>, <<"9","7","4">>, <<"9","7","5">>, <<"9","7","6">>,
    <<"9","7","7">>, <<"9","9","2">>, <<"9","9","3">>, <<"9","9","4">>,
    <<"9","9","5">>, <<"9","9","6">>, <<"9","9","8">>
  }

(***************************************************************************)
(* str helpers.                                                            *)
(***************************************************************************)
\* the characters matched by \s and removed by str.strip()
Whitespace == {" ", "\t", "\n", "\r"}

Range(s) == {s[i] : i \in 1..Len(s)}

Min(a, b) == IF a <= b THEN a ELSE b

StartsWith(s, p) == Len(p) <= Len(s) /\ SubSeq(s, 1, Len(p)) = p

EndsWith(s, p) ==
  Len(p) <= Len(s) /\ SubSeq(s, Len(s) - Len(p) + 1, Len(s)) = p

\* s.lstrip(chars)
RECURSIVE LStrip(_, _)
LStrip(s, chars) ==
  IF s # <<>> /\ Head(s) \in chars THEN LStrip(Tail(s), chars) ELSE s

\* s.rstrip(chars)
RECURSIVE RStrip(_, _)
RStrip(s, chars) ==
  IF s # <<>> /\ s[Len(s)] \in chars
  THEN RStrip(SubSeq(s, 1, Len(s) - 1), chars)
  ELSE s

\* s.strip()
Strip(s) == RStrip(LStrip(s, Whitespace), Whitespace)

\* s with every character of chars removed: re.sub(r'[chars]', '', s) and
\* s.replace(c, '')
RemoveChars(s, chars) == SelectSeq(s, LAMBDA c : c \notin chars)

\* Pieces between single separators, as s.split(c) gives them: a separator
\* at either end or two in a row give empty pieces, and '' splits to [''].
\* Computed by halving s and joining the two pieces that meet in the middle.
RECURSIVE SplitOn(_, _)
SplitOn(s, seps) ==
  IF Len(s) = 0 THEN << <<>> >>
  ELSE IF Len(s) = 1 THEN (IF s[1] \in seps THEN << <<>>, <<>> >> ELSE <<s>>)
  ELSE LET h == Len(s) \div 2
           l == SplitOn(SubSeq(s, 1, h), seps)
           r == SplitOn(SubSeq(s, h + 1, Len(s)), seps)
       IN  SubSeq(l, 1, Len(l) - 1) \o <<l[Len(l)] \o r[1]>> \o Tail(r)

\* re.split(r'[seps]+', s): the pieces between runs of separators; only a
\* run at either end of s gives an empty piece.
ReSplit(s, seps) ==
  LET p    == SplitOn(s, seps)
      keep == {i \in 1..Len(p) : p[i] # <<>> \/ i = 1 \/ i = Len(p)}
      idx  == SelectSeq([i \in 1..Len(p) |-> i], LAMBDA i : i \in keep)
  IN  [k \in 1..Len(idx) |-> p[idx[k]]]

\* s.lower() on the letters file names use
LowerChar(c) ==
  CASE c = "T" -> "t" [] c = "X" -> "x" [] c = "C" -> "c" [] c = "S" -> "s"
    [] c = "V" -> "v" [] c = "P" -> "p" [] c = "D" -> "d" [] c = "F" -> "f"
    [] c = "A" -> "a" [] c = "B" -> "b" [] OTHER -> c

Lower(s) == [i \in 1..Len(s) |-> LowerChar(s[i])]

(***************************************************************************)
(* Number processing and validation.                                       *)
(***************************************************************************)
normalize_phone_number(raw) ==
  LET stripped == Strip(raw)
      cleaned  == RemoveChars(stripped, Whitespace \cup {"-", "(", ")"})
      noplus   == IF StartsWith(cleaned, <<"+">>) THEN Tail(cleaned)
                  ELSE cleaned
      number   == LStrip(noplus, {"0"})
  IN  IF Len(number) < 8 \/ Len(number) > 15 THEN None
      ELSE IF \E n \in 1..Len(number) - 1 :
                SubSeq(number, 1, n) \in VALID_COUNTRY_CODES
      THEN \* some code is a prefix of number, and shorter than it
           number
      ELSE IF Len(number) >= 10 THEN number ELSE None

\* The members of `numbers` before list(set(numbers)) in
\* extract_numbers_from_text.
TextNumbers(text) ==
  LET lines == SplitOn(text, {"\n"})
      parts(line) == ReSplit(Strip(line), Whitespace \cup {",", ";"})
  IN  UNION { { normalize_phone_number(part) :
                  part \in Range(parts(lines[i])) \ {<<>>} } \ {None}
              : i \in 1..Len(lines) }

\* bytes.decode('utf-8', errors='ignore'): undecodable bytes are dropped
InvalidByte == "\\xff"

Decode(file_content) == RemoveChars(file_content, {InvalidByte})

\* The members of `numbers` before list(set(numbers)) in
\* extract_numbers_from_file; a name with neither suffix gives none.
FileNumbers(file_content, filename) ==
  IF EndsWith(filename, <<".", "t", "x", "t">>)
  THEN TextNumbers(Decode(file_content))
  ELSE IF EndsWith(filename, <<".", "c", "s", "v">>)
  THEN LET lines == SplitOn(Decode(file_content), {"\n"})
       IN  UNION { { normalize_phone_number(Strip(cell)) :
                       cell \in Range(SplitOn(lines[i], {","})) } \ {None}
                   : i \in 1..Len(lines) }
  ELSE {}

\* IsListOfSet as it would be for list(numbers) without set()
IsListOfMembers(list, set) == Range(list) = set

\* list(set(numbers)): a list without repetition whose order is the hash
\* order of the run, which the program does not control.
IsListOfSet(list, set) ==
  /\ Len(list) = Cardinality(set)
  /\ Range(list) = set

extract_numbers_from_text(text, numbers) ==
  IsListOfSet(numbers, TextNumbers(text))

extract_numbers_from_file(file_content, filename, numbers) ==
  IsListOfSet(numbers, FileNumbers(file_content, filename))

(***************************************************************************)
(* User data management.                                                   *)
(***************************************************************************)
DefaultOperations ==
  [whatsapp |-> TRUE, sms |-> TRUE, combo_mode |-> FALSE,
   whatsapp_type |-> "all", sms_type |-> "all"]

\* UserData.__init__, constructed at time t
UserData(t) ==
  [operations |-> DefaultOperations, last_activity |-> t, processing |-> FALSE]

\* "a AND b AND c" as the sequence of its words
RECURSIVE JoinAnd(_)
JoinAnd(ops) ==
  IF ops = <<>> THEN <<>>
  ELSE IF Len(ops) = 1 THEN ops[1]
  ELSE ops[1] \o <<"AND">> \o JoinAnd(Tail(ops))

\* UserData.get_operations_display: each entry is the sequence of its words
get_operations_display(operations) ==
  LET wa  == IF ~operations.whatsapp THEN <<>>
             ELSE IF operations.whatsapp_type = "on"
             THEN << <<"On WhatsApp">> >>
             ELSE IF operations.whatsapp_type = "off"
             THEN << <<"Not on WhatsApp">> >>
             ELSE << <<"WhatsApp Status">> >>
      sm  == IF ~operations.sms THEN <<>>
             ELSE IF operations.sms_type = "on"
             THEN << <<"Can receive SMS">> >>
             ELSE IF operations.sms_type = "off"
             THEN << <<"SMS Try again later">> >>
             ELSE << <<"SMS Status">> >>
      ops == wa \o sm
  IN  IF operations.combo_mode /\ Len(ops) > 1
      THEN SubSeq(ops, 1, Len(ops) - 1) \o << <<"COMBO:">> \o JoinAnd(ops) >>
      ELSE ops

(***************************************************************************)
(* The checker port.  A check task is absent (its kind was disabled when   *)
(* the batch was created), pending, done with the tuple the check          *)
(* returned, or raised.                                                    *)
(***************************************************************************)
NoTask      == [state |-> "absent",  value |-> None]
PendingTask == [state |-> "pending", value |-> None]
DoneTask(v) == [state |-> "done",    value |-> v]
RaisedTask  == [state |-> "raised",  value |-> None]

\* int(number[-1]) if number[-1].isdigit() else 0
LastDigit(number) ==
  LET c == number[Len(number)]
  IN  CASE c = "1" -> 1 [] c = "2" -> 2 [] c = "3" -> 3 [] c = "4" -> 4
        [] c = "5" -> 5 [] c = "6" -> 6 [] c = "7" -> 7 [] c = "8" -> 8
        [] c = "9" -> 9 [] OTHER -> 0

\* what the simulated check_whatsapp_status returns
check_whatsapp_status(number) ==
  IF LastDigit(number) % 3 = 1 THEN <<TRUE, "On WhatsApp">>
  ELSE <<FALSE, "Not on WhatsApp">>

\* what the simulated check_sms_status returns when random.randint gives
\* wait_time (as its decimal digits)
check_sms_status(number, wait_time) ==
  LET d == LastDigit(number) % 4
  IN  IF d = 0 THEN <<TRUE, "Can receive SMS", None>>
      ELSE IF d \in {1, 2}
      THEN <<FALSE, "Try again in N min", wait_time \o <<":", "0", "0">> >>
      ELSE <<FALSE, "Cannot receive SMS", None>>

(***************************************************************************)
(* process_numbers.                                                        *)
(***************************************************************************)
NewResults ==
  [whatsapp_on |-> <<>>, whatsapp_off |-> <<>>, sms_on |-> <<>>,
   sms_off |-> <<>>, combo |-> <<>>, processed |-> <<>>]

NewStats(numbers) ==
  [total |-> Len(numbers), whatsapp_on |-> 0, whatsapp_off |-> 0,
   sms_on |-> 0, sms_off |-> 0, combo |-> 0]

\* numbers[i:i + batch_size], i counted from 0
BatchToEnd(numbers, i) == SubSeq(numbers, i + 1, Len(numbers))

Batch(numbers, i) == SubSeq(numbers, i + 1, Min(i + batch_size, Len(numbers)))

\* TaskInfo as it would be without the tests of the enabled kinds
TaskInfoOfBoth(number, operations) ==
  [number |-> number, whatsapp_task |-> PendingTask, sms_task |-> PendingTask]

\* the task_info of one number: a task per kind enabled right now
TaskInfo(number, operations) ==
  [number        |-> number,
   whatsapp_task |-> IF operations.whatsapp THEN PendingTask ELSE NoTask,
   sms_task      |-> IF operations.sms THEN PendingTask ELSE NoTask]

CreateTasks(batch, operations) ==
  [n \in 1..Len(batch) |-> TaskInfo(batch[n], operations)]

WhatsappResult(task_info) ==
  IF task_info.whatsapp_task.state = "absent" THEN None
  ELSE [status  |-> task_info.whatsapp_task.value[1],
        message |-> task_info.whatsapp_task.value[2]]

SmsResult(task_info) ==
  IF task_info.sms_task.state = "absent" THEN None
  ELSE [status    |-> task_info.sms_task.value[1],
        message   |-> task_info.sms_task.value[2],
        wait_time |-> task_info.sms_task.value[3]]

\* Match as it would be if the polarity of a kind were not applied
MatchIgnoringPolarity(enabled, type, result) == TRUE

\* "Apply filters": does the result pass the polarity filter of its kind
Match(enabled, type, result) ==
  IF ~enabled THEN TRUE
  ELSE IF type = "on" THEN (IF result # None THEN result.status ELSE FALSE)
  ELSE IF type = "off" THEN (IF result # None THEN ~result.status ELSE FALSE)
  ELSE TRUE

\* "if whatsapp_result and whatsapp_result['status']", likewise for sms
IsOn(result) == result # None /\ result.status

\* ComboMatch as it would be with `or` for `and`
ComboMatchAny(whatsapp_match, sms_match) == whatsapp_match \/ sms_match

\* "Check combo condition": if whatsapp_match and sms_match
ComboMatch(whatsapp_match, sms_match) == whatsapp_match /\ sms_match

\* Record as it would be with insert(0, ...) for append
RecordFront(processed, entry) == <<entry>> \o processed

\* "Store processed result": results['processed'].append({...})
Record(processed, entry) == Append(processed, entry)

\* Individual as it would be with the individual results not under `else`
IndividualAlways(operations) == TRUE

\* the `else` of "if user_data.operations['combo_mode']": individual results
Individual(operations) == ~operations.combo_mode

\* Increment as it would be outside the `if` that appends
IncrementAlways(n, yes) == n + 1

\* stats[bucket] += 1, next to the append to the bucket
Increment(n, yes) == IF yes THEN n + 1 ELSE n

\* One number bucketed and recorded, once its checks are in: the part of
\* process_numbers from "Apply filters" to "Store processed result".
\* rs is the pair [results, stats].
Commit(rs, operations, number, whatsapp_result, sms_result) ==
  LET r == rs.results
      c == rs.stats
      whatsapp_match == Match(operations.whatsapp, operations.whatsapp_type,
                              whatsapp_result)
      sms_match      == Match(operations.sms, operations.sms_type, sms_result)
      combo    == operations.combo_mode /\ ComboMatch(whatsapp_match, sms_match)
      wa       == Individual(operations) /\ whatsapp_match /\ operations.whatsapp
      sm       == Individual(operations) /\ sms_match /\ operations.sms
      wa_on    == wa /\ IsOn(whatsapp_result)
      wa_off   == wa /\ ~IsOn(whatsapp_result)
      sm_on    == sm /\ IsOn(sms_result)
      sm_off   == sm /\ ~IsOn(sms_result)
      add(list, yes) == IF yes THEN Append(list, number) ELSE list
      inc(n, yes)    == Increment(n, yes)
  IN  [results |->
         [whatsapp_on  |-> add(r.whatsapp_on, wa_on),
          whatsapp_off |-> add(r.whatsapp_off, wa_off),
          sms_on       |-> add(r.sms_on, sm_on),
          sms_off      |-> add(r.sms_off, sm_off),
          combo        |-> add(r.combo, combo),
          processed    |-> Record(r.processed,
                             [number   |-> number,
                              whatsapp |-> whatsapp_result,
                              sms      |-> sms_result])],
       stats |->
         [total        |-> c.total,
          whatsapp_on  |-> inc(c.whatsapp_on, wa_on),
          whatsapp_off |-> inc(c.whatsapp_off, wa_off),
          sms_on       |-> inc(c.sms_on, sm_on),
          sms_off      |-> inc(c.sms_off, sm_off),
          combo        |-> inc(c.combo, combo)]]

(***************************************************************************)
(* generate_result_file.  A line is a label and the words or characters    *)
(* that follow it; a number line is "+" followed by the number.            *)
(***************************************************************************)
Line(label, items) == [label |-> label, items |-> items]

NumberLines(list) == [n \in 1..Len(list) |-> Line("+", list[n])]

SectionAlways(label, list) ==
  <<Line(label, <<>>)>> \o NumberLines(list) \o <<Line("", <<>>)>>

Section(label, list) ==
  IF list = <<>> THEN <<>>
  ELSE <<Line(label, <<>>)>> \o NumberLines(list) \o <<Line("", <<>>)>>

generate_result_file(results, operations) ==
  IF operations.combo_mode
  THEN [name |-> "combo_results",
        content |->
          << Line("=== COMBO RESULTS ===", <<>>),
             Line("Time:", <<>>),
             Line("Operations:", JoinAnd(get_operations_display(operations))),
             Line("", <<>>) >>
          \o (IF results.combo # <<>>
              THEN <<Line("Numbers matching ALL conditions:", <<>>)>>
                   \o NumberLines(results.combo)
              ELSE <<Line("No numbers matched all conditions", <<>>)>>)]
  ELSE [name |-> "checking_results",
        content |->
          << Line("=== CHECKING RESULTS ===", <<>>),
             Line("Time:", <<>>),
             Line("", <<>>) >>
          \o [n \in 1..Len(get_operations_display(operations)) |->
                Line("", get_operations_display(operations)[n])]
          \o <<Line("", <<>>)>>
          \o (IF operations.whatsapp
              THEN Section("ON WHATSAPP:", results.whatsapp_on)
                   \o Section("NOT ON WHATSAPP:", results.whatsapp_off)
              ELSE <<>>)
          \o (IF operations.sms
              THEN Section("CAN RECEIVE SMS:", results.sms_on)
                   \o (IF results.sms_off # <<>>
                       THEN <<Line("SMS TRY AGAIN LATER:", <<>>)>>
                            \o NumberLines(results.sms_off)
                       ELSE <<>>)
              ELSE <<>>)]

(***************************************************************************)
(* handle_manual_operation.                                                *)
(***************************************************************************)
\* re.match(r'^[1-4,c\s]+$', text.replace(',', ''))
IsOperationText(text) ==
  LET t == RemoveChars(text, {","})
  IN  /\ Len(t) > 0
      /\ \A n \in 1..Len(t) : t[n] \in {"1", "2", "3", "4", ",", "c"} \cup Whitespace

\* the effect of one part of the text on the operations
ApplyPart(operations, part) ==
  IF part = <<"1">>
  THEN [operations EXCEPT !.whatsapp = TRUE, !.whatsapp_type = "on"]
  ELSE IF part = <<"2">>
  THEN [operations EXCEPT !.whatsapp = TRUE, !.whatsapp_type = "off"]
  ELSE IF part = <<"3">>
  THEN [operations EXCEPT !.sms = TRUE, !.sms_type = "on"]
  ELSE IF part = <<"4">>
  THEN [operations EXCEPT !.sms = TRUE, !.sms_type = "off"]
  ELSE IF Lower(part) = <<"c">>
  THEN [operations EXCEPT !.combo_mode = TRUE]
  ELSE operations

RECURSIVE ApplyParts(_, _)
ApplyParts(operations, parts) ==
  IF parts = <<>> THEN operations
  ELSE ApplyParts(ApplyPart(operations, Strip(Head(parts))), Tail(parts))

\* the operations handle_manual_operation leaves for text
ManualOperations(text) ==
  ApplyParts([whatsapp |-> FALSE, sms |-> FALSE, combo_mode |-> FALSE,
              whatsapp_type |-> "all", sms_type |-> "all"],
             SplitOn(text, {","}))

(***************************************************************************)
(* State.                                                                  *)
(***************************************************************************)
VARIABLES
  user_sessions,  \* user_id -> UserData, for the users seen so far
  handlers,       \* slot -> the frame of a handle_text_message or
                  \* handle_document invocation that started processing
  last_reply,     \* user_id -> the last reply of a handler that ended
                  \* without suspending: wait, operations_set, error_occurred
  now,            \* the clock datetime.now() reads
  call            \* the last call of a function of the program made on
                  \* its own, outside a handler: its name, its arguments
                  \* and the value it returned

vars == <<user_sessions, handlers, last_reply, now, call>>

NoCall == [fn |-> "", args |-> <<>>, value |-> None]

\* the callers of the model
Users == {"u1", "u2"}

\* frames for handler invocations: one more than the callers, so that a
\* request always finds a frame
MaxHandlers == 3

Slots == 1..MaxHandlers

\* accepted requests in one behaviour: each reads a later datetime.now()
MaxTime == 2

NoDocument == [file_name |-> <<>>, content |-> <<>>]

\* The frame of a handler invocation: where it is suspended (pc), the update
\* it handles (text or document), its locals, those of its process_numbers
\* call (numbers, i, batch_tasks, k, results, stats; run tells whether the
\* call has not begun, is running, has returned or has raised), the replies
\* it has issued so far (sent) and the report it has rendered (file_buffer).
IdleFrame ==
  [pc |-> "idle", handler |-> "", user_id |-> "", text |-> <<>>,
   document |-> NoDocument, numbers |-> <<>>, run |-> "none", i |-> 0,
   batch_tasks |-> <<>>, k |-> 1, results |-> NewResults,
   stats |-> NewStats(<<>>), sent |-> <<>>, file_buffer |-> None]

Init ==
  /\ user_sessions = [u \in {} |-> UserData(0)]
  /\ handlers = [h \in Slots |-> IdleFrame]
  /\ last_reply = [u \in Users |-> ""]
  /\ now = 0
  /\ call = NoCall

\* get_user_data: the session map after the call
get_user_data(user_id) ==
  IF user_id \in DOMAIN user_sessions THEN user_sessions
  ELSE [u \in DOMAIN user_sessions \cup {user_id} |->
          IF u = user_id THEN UserData(now) ELSE user_sessions[u]]

\* a frame slot is free when no invocation holds it
Free(h) == handlers[h].pc = "idle"

\* h is the slot a new invocation gets: the lowest free one
FirstFree(h) == Free(h) /\ \A g \in Slots : g < h => ~Free(g)

(***************************************************************************)
(* process_numbers, from one suspension to the next.                       *)
(***************************************************************************)
\* the values of the frame when the handler has reached `except`: the locals
\* of process_numbers are gone and the error reply is being sent
Except(f) ==
  [f EXCEPT !.pc = "reply_error", !.sent = Append(@, "error"),
            !.run = IF @ = "running" THEN "raised" ELSE @,
            !.batch_tasks = <<>>, !.k = 1, !.i = 0,
            !.results = IF f.run = "running" THEN NewResults ELSE @,
            !.stats = IF f.run = "running" THEN NewStats(<<>>) ELSE @]

\* process_numbers has returned: the handler renders the report and edits
\* the progress message to the statistics.  batch_tasks keeps the tasks of
\* the last batch, all finished.
Returned(f, operations) ==
  [f EXCEPT !.pc = "edit_stats", !.run = "returned",
            !.file_buffer = generate_result_file(f.results, operations),
            !.sent = Append(@, "stats")]

\* The inner loop "for task_info in batch_tasks" from task_info k on, up to
\* the first await of a task that is still pending (an await of a finished
\* task does not suspend), a raised check, the sleep between two batches or
\* the return.
RECURSIVE Proceed(_, _)
Proceed(f, operations) ==
  IF f.k > Len(f.batch_tasks)
  THEN IF f.i + batch_size < Len(f.numbers)
       THEN [f EXCEPT !.pc = "sleep"]
       ELSE Returned(f, operations)
  ELSE LET task_info == f.batch_tasks[f.k]
       IN  IF task_info.whatsapp_task.state = "pending"
           THEN [f EXCEPT !.pc = "await_task"]
           ELSE IF task_info.whatsapp_task.state = "raised"
           THEN Except(f)
           ELSE IF task_info.sms_task.state = "pending"
           THEN [f EXCEPT !.pc = "await_task"]
           ELSE IF task_info.sms_task.state = "raised"
           THEN Except(f)
           ELSE LET rs == Commit([results |-> f.results, stats |-> f.stats],
                                 operations, task_info.number,
                                 WhatsappResult(task_info),
                                 SmsResult(task_info))
                IN  Proceed([f EXCEPT !.results = rs.results,
                                      !.stats = rs.stats,
                                      !.k = @ + 1], operations)

\* StartBatch as it would be with results and stats initialised inside the
\* loop over the batches
StartBatchAfresh(f, i, operations) ==
  Proceed([f EXCEPT !.i = i, !.k = 1, !.results = NewResults,
                    !.stats = NewStats(f.numbers),
                    !.batch_tasks = CreateTasks(Batch(f.numbers, i), operations)],
          operations)

\* the batch starting at i: its tasks are created, then the inner loop runs
StartBatch(f, i, operations) ==
  Proceed([f EXCEPT !.i = i, !.k = 1,
                    !.batch_tasks = CreateTasks(Batch(f.numbers, i), operations)],
          operations)

\* process_numbers(numbers, user_data) up to its first suspension
process_numbers(f, operations) ==
  StartBatch([f EXCEPT !.run = "running", !.results = NewResults,
                       !.stats = NewStats(f.numbers)],
             0, operations)

\* is the inner loop suspended on a task that has finished by now
Resumable(f) ==
  /\ f.pc = "await_task"
  /\ LET task_info == f.batch_tasks[f.k]
     IN  /\ task_info.whatsapp_task.state # "pending"
         /\ \/ task_info.whatsapp_task.state = "raised"
            \/ task_info.sms_task.state # "pending"

(***************************************************************************)
(* Handlers.                                                               *)
(***************************************************************************)
\* Extracted as it would be without `if not numbers:`
ExtractedUnchecked(f, numbers) ==
  [f EXCEPT !.pc = "reply_processing", !.numbers = numbers,
            !.sent = Append(@, "processing")]

\* The part both handlers share once the numbers are extracted: the "no
\* valid numbers" reply, the truncation notice or the processing message.
Extracted(f, numbers) ==
  IF numbers = <<>>
  THEN [f EXCEPT !.pc = "reply_no_numbers", !.sent = Append(@, "no_numbers")]
  ELSE IF Len(numbers) > MAX_NUMBERS
  THEN [f EXCEPT !.pc = "reply_truncated", !.numbers = numbers,
                 !.sent = Append(@, "truncated")]
  ELSE [f EXCEPT !.pc = "reply_processing", !.numbers = numbers,
                 !.sent = Append(@, "processing")]

\* Truncate as it would be without the slice
TruncateNothing(numbers) == numbers

\* numbers[:1000]
Truncate(numbers) == SubSeq(numbers, 1, MAX_NUMBERS)

\* Busy as it would be without the check of the processing flag
BusyNever(user_data) == FALSE

\* `if user_data.processing:` the request is answered "please wait"
Busy(user_data) == user_data.processing

\* Rejected as it would be with the `user_data.processing = False` of the
\* other early returns
RejectedClearsFlag(sessions, user_id) ==
  [sessions EXCEPT ![user_id].processing = FALSE]

\* the sessions when a request is answered "please wait": nothing is written
Rejected(sessions, user_id) == sessions

\* Accept as it would be with one processing flag for all the sessions
AcceptAll(sessions, user_id, t) ==
  [u \in DOMAIN sessions |->
     [sessions[u] EXCEPT !.processing = TRUE, !.last_activity = t]]

\* processing = True and last_activity = datetime.now() for user_id
Accept(sessions, user_id, t) ==
  [sessions EXCEPT ![user_id].processing = TRUE,
                   ![user_id].last_activity = t]

\* Finally as it would be without the `finally` clause
FinallyKeepsFlag(h) ==
  /\ handlers' = [handlers EXCEPT ![h] = IdleFrame]
  /\ UNCHANGED user_sessions

\* `finally: user_data.processing = False` (and on two paths the same
\* assignment just before `return`): the handler of frame h is over and its
\* frame is gone
Finally(h) ==
  /\ handlers' = [handlers EXCEPT ![h] = IdleFrame]
  /\ user_sessions' =
       [user_sessions EXCEPT ![handlers[h].user_id].processing = FALSE]

\* handle_text_message, up to its first suspension.  numbers is the list
\* extract_numbers_from_text gives for the text.
handle_text_message(h, user_id, message_text, numbers) ==
  LET sessions == get_user_data(user_id)
      text     == Strip(message_text)
  IN  IF Busy(sessions[user_id])
      THEN /\ FirstFree(h)
           /\ user_sessions' = Rejected(sessions, user_id)
           /\ last_reply' = [last_reply EXCEPT ![user_id] = "wait"]
           /\ UNCHANGED <<handlers, now, call>>
      ELSE IF IsOperationText(text)
      THEN \* handle_manual_operation
           /\ FirstFree(h)
           /\ user_sessions' =
                [sessions EXCEPT ![user_id].operations = ManualOperations(text)]
           /\ last_reply' = [last_reply EXCEPT ![user_id] = "operations_set"]
           /\ UNCHANGED <<handlers, now, call>>
      ELSE /\ now < MaxTime
           /\ FirstFree(h)
           /\ now' = now + 1
           /\ user_sessions' = Accept(sessions, user_id, now')
           /\ handlers' = [handlers EXCEPT ![h] =
                Extracted([IdleFrame EXCEPT !.handler = "text",
                                            !.user_id = user_id,
                                            !.text = text], numbers)]
           /\ UNCHANGED <<last_reply, call>>
           /\ extract_numbers_from_text(text, numbers)

\* handle_document, up to its first suspension (document.get_file())
handle_document(h, user_id, document) ==
  LET sessions == get_user_data(user_id)
  IN  IF Busy(sessions[user_id])
      THEN /\ FirstFree(h)
           /\ user_sessions' = Rejected(sessions, user_id)
           /\ last_reply' = [last_reply EXCEPT ![user_id] = "wait"]
           /\ UNCHANGED <<handlers, now, call>>
      ELSE /\ now < MaxTime
           /\ FirstFree(h)
           /\ now' = now + 1
           /\ user_sessions' = Accept(sessions, user_id, now')
           /\ handlers' = [handlers EXCEPT ![h] =
                [IdleFrame EXCEPT !.handler = "document", !.pc = "get_file",
                                  !.user_id = user_id, !.document = document]]
           /\ UNCHANGED <<last_reply, call>>

\* SupportedName as it would be without the check of the file type
SupportedAny(filename) == TRUE

\* filename.endswith('.txt') or filename.endswith('.csv')
SupportedName(filename) ==
  \/ EndsWith(filename, <<".", "t", "x", "t">>)
  \/ EndsWith(filename, <<".", "c", "s", "v">>)

\* file.download_as_bytearray() returns (ok) or raises; numbers is the list
\* extract_numbers_from_file gives for the file, when it is called.
download_returns(h, ok, numbers) ==
  LET f        == handlers[h]
      filename == Lower(f.document.file_name)
  IN  /\ f.pc = "download"
      /\ handlers' = [handlers EXCEPT ![h] =
           IF ~ok THEN Except(f)
           ELSE IF ~SupportedName(filename)
           THEN [f EXCEPT !.pc = "reply_unsupported",
                          !.sent = Append(@, "unsupported")]
           ELSE Extracted(f, numbers)]
      /\ ok /\ SupportedName(filename) =>
           extract_numbers_from_file(f.document.content, filename, numbers)
      /\ UNCHANGED <<user_sessions, last_reply, now, call>>

\* An awaited call of the Telegram API returns (ok) or raises: get_file,
\* reply_text, edit_text, reply_document.
telegram_returns(h, ok) ==
  LET f          == handlers[h]
      operations == user_sessions[f.user_id].operations
  IN  /\ f.pc \in {"get_file", "reply_unsupported", "reply_no_numbers",
                   "reply_truncated", "reply_processing", "edit_stats",
                   "reply_document", "reply_error"}
      /\ last_reply' =
           IF f.pc = "reply_error" /\ ~ok
           THEN \* the exception reaches error_handler, which replies
                [last_reply EXCEPT ![f.user_id] = "error_occurred"]
           ELSE last_reply
      /\ UNCHANGED <<now, call>>
      /\ IF f.pc = "reply_error"
         THEN \* an exception of the error reply leaves the handler through
              \* `finally` too
              Finally(h)
         ELSE IF ~ok
         THEN /\ handlers' = [handlers EXCEPT ![h] = Except(f)]
              /\ UNCHANGED user_sessions
         ELSE IF f.pc \in {"reply_unsupported", "reply_no_numbers",
                           "reply_document"}
         THEN Finally(h)
         ELSE /\ UNCHANGED user_sessions
              /\ handlers' = [handlers EXCEPT ![h] =
                   IF f.pc = "get_file" THEN [f EXCEPT !.pc = "download"]
                   ELSE IF f.pc = "reply_truncated"
                   THEN [f EXCEPT !.pc = "reply_processing",
                                  !.numbers = Truncate(@),
                                  !.sent = Append(@, "processing")]
                   ELSE IF f.pc = "reply_processing"
                   THEN process_numbers(f, operations)
                   ELSE \* edit_stats
                        [f EXCEPT !.pc = "reply_document",
                                  !.sent = Append(@, "document")]]

\* The check task of number n of the batch finishes: it returned a value
\* (outcome = DoneTask(value)) or raised (outcome = RaisedTask).
check_returns(h, n, kind, outcome) ==
  LET f == handlers[h]
  IN  /\ f.pc = "await_task"
      /\ n \in 1..Len(f.batch_tasks)
      /\ IF kind = "whatsapp"
         THEN /\ f.batch_tasks[n].whatsapp_task.state = "pending"
              /\ handlers' = [handlers EXCEPT
                   ![h].batch_tasks[n].whatsapp_task = outcome]
         ELSE /\ f.batch_tasks[n].sms_task.state = "pending"
              /\ handlers' = [handlers EXCEPT
                   ![h].batch_tasks[n].sms_task = outcome]
      /\ UNCHANGED <<user_sessions, last_reply, now, call>>

\* process_numbers resumes: the task it awaited has finished
resume(h) ==
  LET f == handlers[h]
  IN  /\ Resumable(f)
      /\ handlers' = [handlers EXCEPT ![h] =
           Proceed(f, user_sessions[f.user_id].operations)]
      /\ UNCHANGED <<user_sessions, last_reply, now, call>>

\* asyncio.sleep(0.1) between two batches returns: the next batch starts
sleep_returns(h) ==
  LET f == handlers[h]
  IN  /\ f.pc = "sleep"
      /\ handlers' = [handlers EXCEPT ![h] =
           StartBatch(f, f.i + batch_size,
                      user_sessions[f.user_id].operations)]
      /\ UNCHANGED <<user_sessions, last_reply, now, call>>

\* button_callback: `user_data = get_user_data(user_data)` reads the local
\* user_data before it is assigned, so every callback raises
\* UnboundLocalError there, whatever query.data is; no branch below it runs,
\* and error_handler replies.
button_callback(user_id, data) ==
  /\ data \in {"op_1", "op_2", "op_3", "op_4", "op_combo", "op_apply",
               "op_reset"}
  /\ last_reply' = [last_reply EXCEPT ![user_id] = "error_occurred"]
  /\ UNCHANGED <<user_sessions, handlers, now, call>>

(***************************************************************************)
(* Inputs.                                                                 *)
(***************************************************************************)
CC == <<"2", "3", "4", "8", "0", "1", "2", "3", "4", "5", "6", "7">>

\* three numbers: the first and second differ in their last digit only
N1 == CC \o <<"1">>
N2 == CC \o <<"4">>
N3 == CC \o <<"3">>

\* the permutations of a set as lists
Orderings(set) ==
  {list \in [1..Cardinality(set) -> set] : Range(list) = set}

\* what a check may give: any status, or an exception
WhatsappOutcomes ==
  {DoneTask(<<TRUE, "On WhatsApp">>), DoneTask(<<FALSE, "Not on WhatsApp">>),
   RaisedTask}

SmsOutcomes ==
  {DoneTask(<<TRUE, "Can receive SMS", None>>),
   DoneTask(<<FALSE, "Try again in N min", <<"5", ":", "0", "0">> >>),
   RaisedTask}

Outcomes(kind) == IF kind = "whatsapp" THEN WhatsappOutcomes ELSE SmsOutcomes

\* messages that set the operations
OperationTexts ==
  { <<"1", ",", "4">>, <<"2", ",", "3", ",", "c">>, <<"1", ",", "c">>,
    <<"1", " ", "c">> }

\* messages that carry numbers, or none
NumberTexts ==
  { <<"+">> \o N1,
    <<"+">> \o N1 \o <<"\n">> \o N3 \o <<" ", "0", "0">> \o N1,
    <<"h", "e", "l", "l", "o">> }

Documents ==
  { [file_name |-> <<"n", ".", "t", "x", "t">>,
     content   |-> N2 \o <<"\n", InvalidByte>> \o N3],
    [file_name |-> <<"N", ".", "C", "S", "V">>,
     content   |-> N1 \o <<",", " ">> \o N1 \o <<"\n", "x">>],
    [file_name |-> <<"a", ".", "p", "d", "f">>, content |-> N1],
    [file_name |-> <<"e", ".", "t", "x", "t">>,
     content   |-> <<"h", "i", "\n">> \o SubSeq(N1, 1, 7)] }

\* a message with a list extract_numbers_from_text may give for it
TextInputs(texts) ==
  UNION { { <<text, numbers>> :
              numbers \in Orderings(TextNumbers(Strip(text))) } : text \in texts }

\* a document with a list extract_numbers_from_file may give for it
DocumentNumbers(document) ==
  Orderings(FileNumbers(document.content, Lower(document.file_name)))

NumberInputs == TextInputs(NumberTexts)

AllTextInputs == TextInputs(OperationTexts) \cup NumberInputs

(***************************************************************************)
(* One caller, every input: a request may arrive while an earlier one of   *)
(* the same caller is suspended.  No input has more than batch_size        *)
(* numbers, so process_numbers never sleeps between two batches here.      *)
(***************************************************************************)
Next ==
  \/ \E h \in Slots, input \in AllTextInputs :
       handle_text_message(h, "u1", input[1], input[2])
  \/ \E h \in Slots, document \in Documents :
       handle_document(h, "u1", document)
  \/ \E h \in Slots, ok \in BOOLEAN :
       /\ handlers[h].pc = "download"
       /\ \E numbers \in DocumentNumbers(handlers[h].document) :
            download_returns(h, ok, numbers)
  \/ \E h \in Slots, ok \in BOOLEAN : telegram_returns(h, ok)
  \/ \E h \in Slots, n \in 1..batch_size, kind \in {"whatsapp", "sms"} :
       \E outcome \in Outcomes(kind) : check_returns(h, n, kind, outcome)
  \/ \E h \in Slots : resume(h)
  \/ \E data \in {"op_combo", "op_reset"} : button_callback("u1", data)

Spec == Init /\ [][Next]_vars

\* requests that take each way out of a handler: a number to check, no
\* number, a file of a type that is not supported
FairTexts ==
  TextInputs({ <<"+">> \o N1, <<"h", "e", "l", "l", "o">> })

FairDocuments ==
  { [file_name |-> <<"n", ".", "t", "x", "t">>, content |-> N2],
    [file_name |-> <<"a", ".", "p", "d", "f">>, content |-> N1],
    [file_name |-> <<"e", ".", "t", "x", "t">>,
     content   |-> <<"h", "i", "\n">> \o SubSeq(N1, 1, 7)] }

\* the lists extract_numbers_from_file may give for each of them
FairDocumentNumbers ==
  [document \in FairDocuments \cup {NoDocument} |-> DocumentNumbers(document)]

\* what the handler of frame h awaits returns or raises, or the handler
\* resumes after the task it awaited has finished
Returns(h) ==
  \/ \E ok \in BOOLEAN :
       /\ handlers[h].pc = "download"
       /\ \E numbers \in FairDocumentNumbers[handlers[h].document] :
            download_returns(h, ok, numbers)
  \/ \E ok \in BOOLEAN : telegram_returns(h, ok)
  \/ \E n \in 1..batch_size, kind \in {"whatsapp", "sms"} :
       \E outcome \in Outcomes(kind) : check_returns(h, n, kind, outcome)
  \/ resume(h)

NextFair ==
  \/ \E h \in Slots, input \in FairTexts :
       handle_text_message(h, "u1", input[1], input[2])
  \/ \E h \in Slots, document \in FairDocuments :
       handle_document(h, "u1", document)
  \/ \E h \in Slots : Returns(h)

\* One caller whose requests take each way out; no handler waits for ever
\* for an awaited call that could return or raise, and the loop resumes a
\* handler whose awaited task has finished.
SpecFair ==
  Init /\ [][NextFair]_vars /\ \A h \in Slots : WF_vars(Returns(h))

(***************************************************************************)
(* Two callers, a few inputs each: the requests and the runs of the two    *)
(* interleave at every suspension.  A check may raise; the calls of the    *)
(* Telegram API return (their failures are in the one-caller behaviours).  *)
(***************************************************************************)
CallerTexts ==
  TextInputs({ <<"+">> \o N1, <<"1", ",", "4">> })

\* what a check gives here: a positive status, or an exception
CallerOutcomes(kind) ==
  IF kind = "whatsapp"
  THEN {DoneTask(<<TRUE, "On WhatsApp">>), RaisedTask}
  ELSE {DoneTask(<<TRUE, "Can receive SMS", None>>), RaisedTask}

CallerDocuments ==
  { [file_name |-> <<"n", ".", "t", "x", "t">>, content |-> N2] }

\* the steps taken on behalf of caller a: its requests, and the steps of
\* the handler invocations that serve it
OnBehalfOf(a) ==
  \/ \E h \in Slots, input \in CallerTexts :
       handle_text_message(h, a, input[1], input[2])
  \/ \E h \in Slots, document \in CallerDocuments :
       handle_document(h, a, document)
  \/ \E h \in Slots :
       /\ handlers[h].pc = "download"
       /\ handlers[h].user_id = a
       /\ \E numbers \in DocumentNumbers(handlers[h].document) :
            download_returns(h, TRUE, numbers)
  \/ \E h \in Slots : handlers[h].user_id = a /\ telegram_returns(h, TRUE)
  \/ \E h \in Slots, n \in 1..batch_size, kind \in {"whatsapp", "sms"} :
       /\ handlers[h].user_id = a
       /\ \E outcome \in CallerOutcomes(kind) :
            check_returns(h, n, kind, outcome)
  \/ \E h \in Slots : handlers[h].user_id = a /\ resume(h)

NextCallers == \E a \in Users : OnBehalfOf(a)

SpecCallers == Init /\ [][NextCallers]_vars

(***************************************************************************)
(* One caller, inputs around the cap of 1000 numbers.  The checker is the  *)
(* simulation of the program.  In the runs of 1000 numbers the check tasks *)
(* of a batch have all finished when process_numbers resumes; in the run   *)
(* of 12 numbers those of the awaited number may finish before the rest.   *)
(***************************************************************************)
Digits == <<"0", "1", "2", "3", "4", "5", "6", "7", "8", "9">>

\* the number n of the inputs: 234 and the five digits of n
CapNumber(n) ==
  <<"2", "3", "4", Digits[((n \div 10000) % 10) + 1],
    Digits[((n \div 1000) % 10) + 1], Digits[((n \div 100) % 10) + 1],
    Digits[((n \div 10) % 10) + 1], Digits[(n % 10) + 1]>>

CapNumbers(count) == [n \in 1..count |-> CapNumber(n)]

\* the numbers lo..hi, one on a line
RECURSIVE CapLines(_, _)
CapLines(lo, hi) ==
  IF lo > hi THEN <<>>
  ELSE IF lo = hi THEN CapNumber(lo) \o <<"\n">>
  ELSE LET mid == (lo + hi) \div 2
       IN  CapLines(lo, mid) \o CapLines(mid + 1, hi)

\* how many numbers the inputs carry: one over the cap, the cap, and a
\* batch and a bit
CapCounts == {MAX_NUMBERS + 1, MAX_NUMBERS, batch_size + 2}

\* a message of count numbers with the list extracted from it
CapTextInputs ==
  { <<CapLines(1, count), CapNumbers(count)>> : count \in CapCounts }

CapDocuments ==
  { [file_name |-> <<"N", ".", "t", "x", "t">>, content |-> CapLines(1, count)] :
      count \in CapCounts }

\* the numbers extraction yields for an input
ExtractedFromText ==
  [input \in {Strip(i[1]) : i \in CapTextInputs} |->
     Cardinality(TextNumbers(input))]

ExtractedFromDocument ==
  [document \in CapDocuments |->
     Cardinality(FileNumbers(document.content, Lower(document.file_name)))]

\* the value random.randint gives check_sms_status here: one of 1..15, or
\* one of 16..30 for a last digit that is 2 modulo 4
WaitTime(number) ==
  IF LastDigit(number) % 4 = 2 THEN <<"1", "6">> ELSE <<"7">>

\* the task with what the simulation returns for it, if it is pending
Simulated(task, value) == IF task.state = "pending" THEN DoneTask(value) ELSE task

\* the check tasks of the batch up to those of its number `last` finish,
\* each with what the simulation returns, while process_numbers awaits one
\* of them.  They finish together; in a run of less than two batches' worth
\* of numbers those of the awaited number may also finish before the rest.
simulated_checks_return(h, last) ==
  LET f == handlers[h]
      done(task_info) ==
        [task_info EXCEPT
           !.whatsapp_task =
              Simulated(@, check_whatsapp_status(task_info.number)),
           !.sms_task =
              Simulated(@, check_sms_status(task_info.number,
                                           WaitTime(task_info.number)))]
  IN  /\ f.pc = "await_task"
      /\ ~Resumable(f)
      /\ \/ last = Len(f.batch_tasks)
         \/ last = f.k /\ Len(f.numbers) < 2 * batch_size
      /\ handlers' = [handlers EXCEPT ![h].batch_tasks =
           [n \in 1..Len(f.batch_tasks) |->
              IF n <= last THEN done(f.batch_tasks[n])
              ELSE f.batch_tasks[n]]]
      /\ UNCHANGED <<user_sessions, last_reply, now, call>>

NextCap ==
  \/ \E h \in Slots, input \in CapTextInputs :
       handle_text_message(h, "u1", input[1], input[2])
  \/ \E h \in Slots, document \in CapDocuments :
       handle_document(h, "u1", document)
  \/ \E h \in Slots, ok \in BOOLEAN :
       /\ handlers[h].pc = "download"
       /\ download_returns(h, ok,
            CapNumbers(ExtractedFromDocument[handlers[h].document]))
  \/ \E h \in Slots, ok \in BOOLEAN : telegram_returns(h, ok)
  \/ \E h \in Slots, last \in 1..batch_size :
       simulated_checks_return(h, last)
  \/ \E h \in Slots : resume(h)
  \/ \E h \in Slots : sleep_returns(h)

SpecCap == Init /\ [][NextCap]_vars

(***************************************************************************)
(* The functions of the number-processing section called on their own,     *)
(* on inputs put together from a few pieces.                               *)
(***************************************************************************)
\* a raw token is a head, a body and a tail
TokenHeads ==
  { <<>>, <<"+">>, <<"+", "+">>, <<"0">>, <<"0", "0">>, <<"+", "0">>,
    <<"0", "+">>, <<" ">>, <<"(">> }

TokenBodies ==
  { <<"2", "3", "4", "8", "0", "1", "2">>,
    <<"1", "2", "3", "4", "5", "6", "7", "8">>,
    <<"2", "3", "4", "8", "0", "1", "2", "3">>,
    <<"2", "3", "4", "8", "0", "1", "2", "3", "4", "5">>,
    <<"9", "9", "9", "9", "9", "9", "9", "9", "9", "9", "9">>,
    <<"2", "3", "4", "8", "0", "1", "2", "3", "4", "5", "6", "7", "8", "9", "0">>,
    <<"2", "3", "4", "a", "b", "c", "d", "e">>,
    <<"a", "b", "c", "d", "e", "f", "g", "h", "i", "j">>,
    <<"2", " ", "3", "-", "4", "(", "8", ")", "0", " ", "1", " ", "2", " ", "3">> }

TokenTails ==
  { <<>>, <<"1">>, <<"x">>, <<" ">>, <<"0", "0">>, <<".", "5">> }

Tokens ==
  {head \o body \o tail :
     head \in TokenHeads, body \in TokenBodies, tail \in TokenTails}

\* normalize_phone_number(raw) is called and returns
normalize_phone_number_call(raw) ==
  /\ call' = [fn |-> "normalize_phone_number", args |-> <<raw>>,
              value |-> normalize_phone_number(raw)]
  /\ UNCHANGED <<user_sessions, handlers, last_reply, now>>

\* the pieces of the inputs of extraction: two raw forms of one number,
\* another number, and a word
Pieces ==
  { <<"+">> \o SubSeq(N1, 1, 8), <<"0", "0">> \o SubSeq(N1, 1, 8),
    SubSeq(N3, 3, 12), <<"h", "i">> }

Separators == { <<"\n">>, <<",", " ">> }

\* pieces in one input, at most
MaxPieces == 3

\* sep.join(list)
RECURSIVE Join(_, _)
Join(list, sep) ==
  IF list = <<>> THEN <<>>
  ELSE IF Len(list) = 1 THEN list[1]
  ELSE list[1] \o sep \o Join(Tail(list), sep)

ExtractTexts ==
  {Join(list, sep) :
     list \in UNION {[1..n -> Pieces] : n \in 1..MaxPieces},
     sep \in Separators}

FileNames ==
  { <<"a", ".", "t", "x", "t">>, <<"a", ".", "c", "s", "v">>,
    <<"a", ".", "p", "d", "f">> }

\* the lists a call may be taken to return: those that name every member
\* of set, once, or one of them twice
Lists(set) ==
  LET c == Cardinality(set)
  IN  {list \in [1..c -> set] \cup [1..c + 1 -> set] : Range(list) = set}

\* extract_numbers_from_text(text) is called and returns numbers
extract_numbers_from_text_call(text, numbers) ==
  /\ extract_numbers_from_text(text, numbers)
  /\ call' = [fn |-> "extract_numbers_from_text", args |-> <<text>>,
              value |-> numbers]
  /\ UNCHANGED <<user_sessions, handlers, last_reply, now>>

\* extract_numbers_from_file(file_content, filename) is called and returns
\* numbers
extract_numbers_from_file_call(file_content, filename, numbers) ==
  /\ extract_numbers_from_file(file_content, filename, numbers)
  /\ call' = [fn |-> "extract_numbers_from_file",
              args |-> <<file_content, filename>>, value |-> numbers]
  /\ UNCHANGED <<user_sessions, handlers, last_reply, now>>

\* the candidate tokens of an input of extraction: what lies between
\* separators in a text, the cells of a .csv file
TextCandidates(text) ==
  Range(ReSplit(text, Whitespace \cup {",", ";"})) \ {<<>>}

CsvCandidates(text) ==
  LET lines == SplitOn(text, {"\n"})
  IN  UNION { {Strip(cell) : cell \in Range(SplitOn(lines[i], {","}))} :
              i \in 1..Len(lines) }

Candidates(fn, args) ==
  IF fn = "extract_numbers_from_text" THEN TextCandidates(args[1])
  ELSE IF args[2] = <<"a", ".", "t", "x", "t">> THEN TextCandidates(args[1])
  ELSE IF args[2] = <<"a", ".", "c", "s", "v">> THEN CsvCandidates(args[1])
  ELSE {}

\* the call of fn on args is the first call, or repeats the last one on
\* the same candidates, in this or another order
FirstOrAgain(fn, args) ==
  \/ call = NoCall
  \/ call.fn = fn /\ Candidates(fn, args) = Candidates(fn, call.args)

\* list with the elements at m and m + 1 exchanged (list itself for m = 0)
Swapped(list, m) ==
  [i \in 1..Len(list) |->
     IF i = m THEN list[m + 1] ELSE IF i = m + 1 /\ m > 0 THEN list[m]
     ELSE list[i]]

\* the inputs made of the pieces of text in the same order or with two
\* neighbours exchanged: repeated, this gives every order
Reordered(text) ==
  LET pieces == ReSplit(text, Whitespace \cup {",", ";"})
  IN  {Join(Swapped(pieces, m), sep) :
         m \in 0..Len(pieces) - 1, sep \in Separators}

\* the inputs of the next call of an extraction
ExtractTextsNow ==
  IF call = NoCall THEN ExtractTexts
  ELSE IF call.fn \in {"extract_numbers_from_text",
                       "extract_numbers_from_file"}
  THEN Reordered(call.args[1])
  ELSE {}

\* the buckets handed to generate_result_file: empty ones, and different
\* numbers in different orders
ReportBuckets == { <<>>, <<N1>>, <<N3, N2>> }

ReportResults ==
  {[NewResults EXCEPT !.whatsapp_on = a, !.whatsapp_off = b, !.sms_on = c,
                      !.sms_off = d, !.combo = e] :
     a \in ReportBuckets, b \in ReportBuckets, c \in ReportBuckets,
     d \in ReportBuckets, e \in ReportBuckets}

ReportOperations ==
  {[DefaultOperations EXCEPT !.whatsapp = w, !.sms = s, !.combo_mode = c] :
     w \in BOOLEAN, s \in BOOLEAN, c \in BOOLEAN}

\* generate_result_file(results, user_data) is called, user_data holding
\* operations, and returns
generate_result_file_call(results, operations) ==
  /\ call' = [fn |-> "generate_result_file", args |-> <<results, operations>>,
              value |-> generate_result_file(results, operations)]
  /\ UNCHANGED <<user_sessions, handlers, last_reply, now>>

\* A behaviour is one call, or one extraction repeated on inputs with the
\* same candidates.
NextFunctions ==
  \/ \E results \in ReportResults, operations \in ReportOperations :
       call = NoCall /\ generate_result_file_call(results, operations)
  \/ \E raw \in Tokens :
       call = NoCall /\ normalize_phone_number_call(raw)
  \/ \E text \in ExtractTextsNow :
       /\ FirstOrAgain("extract_numbers_from_text", <<text>>)
       /\ \E numbers \in Lists(TextNumbers(text)) :
            extract_numbers_from_text_call(text, numbers)
  \/ \E file_content \in ExtractTextsNow, filename \in FileNames :
       /\ FirstOrAgain("extract_numbers_from_file", <<file_content, filename>>)
       /\ \E numbers \in Lists(FileNumbers(file_content, filename)) :
            extract_numbers_from_file_call(file_content, filename, numbers)

SpecFunctions == Init /\ [][NextFunctions]_vars

(***************************************************************************)
(* Properties.                                                             *)
(***************************************************************************)
Known(u) == u \in DOMAIN user_sessions

\* the frames whose process_numbers call is in flight for caller u
RunsInFlight(u) ==
  {h \in Slots : handlers[h].user_id = u /\ handlers[h].run = "running"}

\* the frames of the invocations of caller u that have set the processing
\* flag and not yet left through `finally`
ActiveFrames(u) == {h \in Slots : handlers[h].user_id = u}

\* the numbers of the processed records, in order
ProcessedNumbers(f) ==
  [n \in 1..Len(f.results.processed) |-> f.results.processed[n].number]

\* the processed record of a number of a run that has returned
ProcessedOf(f, number) ==
  f.results.processed[CHOOSE n \in 1..Len(f.results.processed) :
                        f.results.processed[n].number = number]

\* how often x occurs in list
Count(list, x) == Cardinality({n \in 1..Len(list) : list[n] = x})

\* the frame's process_numbers call has just returned: the caller's
\* operations are still those the run read
JustReturned(f) == f.pc = "edit_stats"

OperationsOf(f) == user_sessions[f.user_id].operations

\* C1: for every caller at most one process_numbers call is in flight at
\* any time, and a text or document request that arrives while the caller's
\* processing flag is set is answered with the wait message and starts
\* nothing: no frame changes.
C1_OneRunPerCaller ==
  /\ [](\A u \in Users : Cardinality(RunsInFlight(u)) <= 1)
  /\ [][\A u \in Users, h \in Slots :
          Known(u) /\ user_sessions[u].processing /\ FirstFree(h) =>
            /\ \A input \in NumberInputs :
                 handle_text_message(h, u, input[1], input[2]) =>
                   last_reply'[u] = "wait" /\ handlers' = handlers
            /\ \A document \in Documents :
                 handle_document(h, u, document) =>
                   last_reply'[u] = "wait" /\ handlers' = handlers]_vars

\* C1 witness: a caller whose run is in flight has been told to wait
C1_Witness ==
  \E u \in Users : RunsInFlight(u) # {} /\ last_reply[u] = "wait"

\* C2: a check that raises for one (number, kind) pair does not abort the
\* batch: no process_numbers call ever ends by raising, every run returns.
C2_CheckFailureDegrades ==
  \A h \in Slots : handlers[h].run # "raised"

\* does the number's recorded outcome of a kind have status true
StatusOf(f, number, kind) ==
  IF kind = "whatsapp" THEN IsOn(ProcessedOf(f, number).whatsapp)
  ELSE IsOn(ProcessedOf(f, number).sms)

Enabled(operations, kind) ==
  IF kind = "whatsapp" THEN operations.whatsapp ELSE operations.sms

TypeOf(operations, kind) ==
  IF kind = "whatsapp" THEN operations.whatsapp_type ELSE operations.sms_type

OnBucket(f, kind) ==
  IF kind = "whatsapp" THEN f.results.whatsapp_on ELSE f.results.sms_on

OffBucket(f, kind) ==
  IF kind = "whatsapp" THEN f.results.whatsapp_off ELSE f.results.sms_off

Kinds == {"whatsapp", "sms"}

\* C3 as stated: in non-combo mode, when process_numbers has returned, every
\* input number is in exactly one of <kind>_on and <kind>_off of every
\* enabled kind (on iff its status is true), whatever the kind's polarity.
C3_PairPartitionsInput ==
  \A h \in Slots :
    LET f == handlers[h]
    IN  JustReturned(f) /\ ~OperationsOf(f).combo_mode =>
          \A kind \in Kinds, n \in 1..Len(f.numbers) :
            Enabled(OperationsOf(f), kind) =>
              /\ Count(OnBucket(f, kind), f.numbers[n])
                   = (IF StatusOf(f, f.numbers[n], kind) THEN 1 ELSE 0)
              /\ Count(OffBucket(f, kind), f.numbers[n])
                   = (IF StatusOf(f, f.numbers[n], kind) THEN 0 ELSE 1)

\* C3 amended: in non-combo mode, when process_numbers has returned, for
\* every enabled kind an input number is in <kind>_on (once) iff its status
\* is true and the kind's polarity is 'all' or 'on', and in <kind>_off
\* (once) iff its status is false and the polarity is 'all' or 'off'; so it
\* is in at most one of the two, in exactly one under polarity 'all', and
\* the buckets hold input numbers only.
C3_PairFollowsPolarity ==
  \A h \in Slots :
    LET f == handlers[h]
    IN  JustReturned(f) /\ ~OperationsOf(f).combo_mode =>
          \A kind \in Kinds :
            Enabled(OperationsOf(f), kind) =>
              /\ Range(OnBucket(f, kind)) \cup Range(OffBucket(f, kind))
                   \subseteq Range(f.numbers)
              /\ \A n \in 1..Len(f.numbers) :
                   LET number == f.numbers[n]
                       status == StatusOf(f, number, kind)
                       type   == TypeOf(OperationsOf(f), kind)
                   IN  /\ Count(OnBucket(f, kind), number)
                            = (IF status /\ type \in {"all", "on"}
                               THEN 1 ELSE 0)
                       /\ Count(OffBucket(f, kind), number)
                            = (IF ~status /\ type \in {"all", "off"}
                               THEN 1 ELSE 0)

\* C3 witness: a returned non-combo run with WhatsApp polarity 'on' in which
\* a number whose status is false is in neither WhatsApp bucket
C3_Witness ==
  \E h \in Slots :
    LET f == handlers[h]
    IN  /\ JustReturned(f)
        /\ ~OperationsOf(f).combo_mode
        /\ OperationsOf(f).whatsapp
        /\ OperationsOf(f).whatsapp_type = "on"
        /\ \E n \in 1..Len(f.numbers) :
             /\ ~StatusOf(f, f.numbers[n], "whatsapp")
             /\ f.numbers[n] \notin Range(f.results.whatsapp_on)
                                      \cup Range(f.results.whatsapp_off)

\* does the number's outcome satisfy the polarity filter of the kind
Satisfies(f, number, kind) ==
  \/ TypeOf(OperationsOf(f), kind) = "all"
  \/ TypeOf(OperationsOf(f), kind) = "on" /\ StatusOf(f, number, kind)
  \/ TypeOf(OperationsOf(f), kind) = "off" /\ ~StatusOf(f, number, kind)

\* C4: in combo mode, when process_numbers has returned, an input number is
\* in the combo bucket (once) iff it satisfies the polarity filter of every
\* enabled kind, and the bucket holds input numbers only.
C4_ComboIsConjunction ==
  \A h \in Slots :
    LET f == handlers[h]
    IN  JustReturned(f) /\ OperationsOf(f).combo_mode =>
          /\ Range(f.results.combo) \subseteq Range(f.numbers)
          /\ \A n \in 1..Len(f.numbers) :
               Count(f.results.combo, f.numbers[n])
                 = (IF \A kind \in Kinds :
                         Enabled(OperationsOf(f), kind) =>
                           Satisfies(f, f.numbers[n], kind)
                    THEN 1 ELSE 0)

\* C4 witness: a returned combo run over two kinds and two numbers, one of
\* which matched and one of which did not
C4_Witness ==
  \E h \in Slots :
    LET f == handlers[h]
    IN  /\ JustReturned(f)
        /\ OperationsOf(f).combo_mode
        /\ OperationsOf(f).whatsapp /\ OperationsOf(f).sms
        /\ Len(f.numbers) = 2
        /\ Len(f.results.combo) = 1

\* C5: in every session, combo mode is on only with both kinds enabled.
C5_ComboNeedsTwoKinds ==
  \A u \in DOMAIN user_sessions :
    user_sessions[u].operations.combo_mode =>
      user_sessions[u].operations.whatsapp /\ user_sessions[u].operations.sms

\* how many numbers extraction yielded for the request of frame f
ExtractedCount(f) ==
  IF f.handler = "text" THEN ExtractedFromText[f.text]
  ELSE ExtractedFromDocument[f.document]

\* C6: a run is given the first 1000 of the extracted numbers when there
\* are more than 1000, after the truncation notice was sent, and all of
\* them otherwise, without a notice; stats.total is that many, and when the
\* run has returned processed has that many records.  For text requests
\* and for document requests.
C6_RunCappedAt1000 ==
  \A h \in Slots :
    LET f == handlers[h]
        n == ExtractedCount(f)
    IN  f.run \in {"running", "returned"} =>
          /\ Len(f.numbers) = Min(n, MAX_NUMBERS)
          /\ f.stats.total = Min(n, MAX_NUMBERS)
          /\ f.run = "returned" =>
               Len(f.results.processed) = Min(n, MAX_NUMBERS)
          /\ IF n > MAX_NUMBERS
             THEN SubSeq(f.sent, 1, 2) = <<"truncated", "processing">>
             ELSE f.sent[1] = "processing" /\ "truncated" \notin Range(f.sent)

\* C6 witness: the run of a document of 1001 numbers has returned with
\* 1000 records
C6_Witness ==
  \E h \in Slots :
    /\ handlers[h].handler = "document"
    /\ handlers[h].run = "returned"
    /\ ExtractedCount(handlers[h]) = MAX_NUMBERS + 1
    /\ Len(handlers[h].results.processed) = MAX_NUMBERS

\* C7: while process_numbers runs, the numbers of `processed` are a prefix
\* of the input sequence, and when it has returned they are the input
\* sequence, in whatever order the checks finished.
C7_ProcessedInInputOrder ==
  \A h \in Slots :
    LET f == handlers[h]
    IN  /\ f.run = "running" =>
             /\ Len(f.results.processed) <= Len(f.numbers)
             /\ ProcessedNumbers(f)
                  = SubSeq(f.numbers, 1, Len(f.results.processed))
        /\ f.run = "returned" => ProcessedNumbers(f) = f.numbers

\* C7 witness: a run over two numbers has returned
C7_Witness ==
  \E h \in Slots :
    /\ handlers[h].run = "returned"
    /\ Len(handlers[h].numbers) = 2
    /\ Len(handlers[h].results.processed) = 2

\* C8: a reset request leaves the caller's operations equal to the default.
C8_ResetRestoresDefault ==
  [][\A u \in Users :
       Known(u) /\ button_callback(u, "op_reset") =>
         user_sessions'[u].operations = DefaultOperations]_vars

\* C9: when process_numbers has raised, its partial results are gone, no
\* report is rendered, neither the statistics nor the document is sent and
\* the error reply is; and the next step of that handler ends it with the
\* caller's processing flag false.
C9_RunAbortsOnError ==
  /\ [](\A h \in Slots :
          handlers[h].run = "raised" =>
            /\ handlers[h].pc = "reply_error"
            /\ handlers[h].results = NewResults
            /\ handlers[h].file_buffer = None
            /\ handlers[h].sent = <<"processing", "error">>
                 \/ handlers[h].sent = <<"truncated", "processing", "error">>)
  /\ [][\A h \in Slots :
          handlers[h].run = "raised" /\ handlers'[h] # handlers[h] =>
            /\ handlers'[h] = IdleFrame
            /\ ~user_sessions'[handlers[h].user_id].processing]_vars

\* C9 witness: a run has raised and its handler is sending the error reply
C9_Witness ==
  \E h \in Slots : handlers[h].run = "raised" /\ handlers[h].pc = "reply_error"

\* nothing of caller b changes in the step: its session, the frames of its
\* handler invocations (with the results of its run) and its last reply
SameFor(b) ==
  /\ Known(b) <=> b \in DOMAIN user_sessions'
  /\ Known(b) => user_sessions'[b] = user_sessions[b]
  /\ \A h \in Slots :
       handlers[h].user_id = b \/ handlers'[h].user_id = b =>
         handlers'[h] = handlers[h]
  /\ last_reply'[b] = last_reply[b]

\* C10: a step that changes something of caller b (session, operations,
\* processing flag, run results) is not a step taken on behalf of another
\* caller a, and a request with numbers of a caller whose own processing
\* flag is not set is accepted, not answered with the wait message,
\* whatever runs the other callers have in flight.
C10_CallersIndependent ==
  [][/\ \A b \in Users :
          ~SameFor(b) => \A a \in Users \ {b} : ~OnBehalfOf(a)
     /\ \A a \in Users, h \in Slots :
          FirstFree(h) /\ ~(Known(a) /\ user_sessions[a].processing) =>
            /\ handle_text_message(h, a, <<"+">> \o N1, <<N1>>) =>
                 /\ last_reply'[a] = last_reply[a]
                 /\ user_sessions'[a].processing
                 /\ handlers'[h].user_id = a
            /\ \A document \in CallerDocuments :
                 handle_document(h, a, document) =>
                   /\ last_reply'[a] = last_reply[a]
                   /\ user_sessions'[a].processing
                   /\ handlers'[h].user_id = a]_vars

\* C10 witness: the runs of two callers are in flight at the same time, one
\* of them with a check finished already
C10_Witness ==
  /\ RunsInFlight("u1") # {} /\ RunsInFlight("u2") # {}
  /\ \E h \in RunsInFlight("u1") :
       handlers[h].batch_tasks[1].whatsapp_task.state = "done"

\* is the name of the document of frame f one handle_document accepts
Supported(f) ==
  LET filename == Lower(f.document.file_name)
      suffix   == SubSeq(filename, Len(filename) - 3, Len(filename))
  IN  Len(filename) >= 4 /\ suffix \in { <<".", "t", "x", "t">>,
                                         <<".", "c", "s", "v">> }

\* the messages and the documents with an accepted name that carry no
\* number that normalizes
ZeroTexts == {text \in {Strip(t) : t \in NumberTexts} : TextNumbers(text) = {}}

ZeroDocuments ==
  {document \in Documents :
     /\ Supported([document |-> document])
     /\ FileNumbers(document.content, Lower(document.file_name)) = {}}

\* the request of frame f is one of them
ZeroNumbers(f) ==
  /\ f.pc # "idle"
  /\ IF f.handler = "text" THEN f.text \in ZeroTexts
     ELSE f.document \in ZeroDocuments

\* C11: for a text or document request whose input yields no number,
\* process_numbers is never called, no check task exists, no report is
\* rendered and neither statistics nor a document is sent; the reply once
\* extraction is done is "no valid numbers"; and when the handler is over
\* the caller's processing flag is false.
C11_NoNumbersNoRun ==
  /\ [](\A h \in Slots :
          LET f == handlers[h]
          IN  ZeroNumbers(f) =>
                /\ f.run = "none" /\ f.numbers = <<>> /\ f.batch_tasks = <<>>
                /\ f.file_buffer = None
                /\ Range(f.sent) \cap {"processing", "stats", "document"} = {}
                /\ f.handler = "text" => f.sent[1] = "no_numbers")
  /\ [][\A h \in Slots :
          LET f == handlers[h]
          IN  handlers'[h] # f /\ ZeroNumbers(f) =>
                /\ f.pc = "download" /\ handlers'[h].pc # "reply_error" =>
                     /\ handlers'[h].pc = "reply_no_numbers"
                     /\ handlers'[h].sent = <<"no_numbers">>
                /\ handlers'[h].pc = "idle" =>
                     ~user_sessions'[f.user_id].processing]_vars

\* C11 witness: a document without numbers is being answered
C11_Witness ==
  \E h \in Slots :
    /\ handlers[h].handler = "document"
    /\ ZeroNumbers(handlers[h])
    /\ handlers[h].pc = "reply_no_numbers"

\* C12: for a document whose lower-cased name ends in neither .txt nor
\* .csv no numbers are extracted and process_numbers is never called: the
\* reply once the download is done is "unsupported file type", nothing but
\* it and an error reply is ever sent; and when the handler is over the
\* caller's processing flag is false.
C12_UnsupportedDocumentRejected ==
  /\ [](\A h \in Slots :
          LET f == handlers[h]
          IN  f.handler = "document" /\ ~Supported(f) =>
                /\ f.run = "none" /\ f.numbers = <<>> /\ f.batch_tasks = <<>>
                /\ f.file_buffer = None
                /\ Range(f.sent) \subseteq {"unsupported", "error"}
                /\ f.pc \in {"get_file", "download", "reply_unsupported",
                              "reply_error"})
  /\ [][\A h \in Slots :
          LET f == handlers[h]
          IN  handlers'[h] # f /\ f.handler = "document" /\ ~Supported(f) =>
                /\ f.pc = "download" /\ handlers'[h].pc # "reply_error" =>
                     /\ handlers'[h].pc = "reply_unsupported"
                     /\ handlers'[h].sent = <<"unsupported">>
                /\ handlers'[h].pc = "idle" =>
                     ~user_sessions'[f.user_id].processing]_vars

\* C12 witness: a document named a.pdf that holds a valid number is being
\* answered
C12_Witness ==
  \E h \in Slots :
    /\ ~Supported(handlers[h])
    /\ TextNumbers(handlers[h].document.content) # {}
    /\ handlers[h].pc = "reply_unsupported"

DigitChars == {"0", "1", "2", "3", "4", "5", "6", "7", "8", "9"}

\* C13: whatever the raw token, normalize_phone_number returns None or a
\* string of 8 to 15 characters, all of them digits, the first not 0.
C13_NormalizedIsCanonical ==
  call.fn = "normalize_phone_number" =>
    \/ call.value = None
    \/ /\ Len(call.value) \in 8..15
       /\ \A n \in 1..Len(call.value) : call.value[n] \in DigitChars
       /\ call.value[1] # "0"

\* the call is one of extraction
IsExtraction(c) ==
  c.fn \in {"extract_numbers_from_text", "extract_numbers_from_file"}

\* C14: extraction returns a list without repetition whose members are
\* exactly the normalizations, other than None, of the candidate tokens of
\* the input; a second extraction on the same input, or on one with the
\* same candidates in another order, returns the same set.
C14_ExtractionIsASet ==
  /\ [](IsExtraction(call) =>
          /\ \A m \in 1..Len(call.value), n \in 1..Len(call.value) :
               call.value[m] = call.value[n] => m = n
          /\ Range(call.value) =
               {normalize_phone_number(c) :
                  c \in Candidates(call.fn, call.args)} \ {None})
  /\ [][IsExtraction(call) /\ call'.fn = call.fn
          /\ Candidates(call.fn, call'.args) = Candidates(call.fn, call.args)
          => Range(call'.value) = Range(call.value)]_vars

\* C14 witness: an extraction on three candidates, two of them raw forms
\* of one number, has returned two numbers after an extraction on the same
\* candidates in another order
C14_Witness ==
  /\ call.fn = "extract_numbers_from_file"
  /\ call.args = << <<"0", "0">> \o SubSeq(N1, 1, 8) \o <<",", " ">>
                      \o SubSeq(N3, 3, 12) \o <<",", " ">>
                      \o <<"+">> \o SubSeq(N1, 1, 8),
                   <<"a", ".", "c", "s", "v">> >>
  /\ Len(call.value) = 2

\* the labels of the sections of the report
BucketLabel(b) ==
  CASE b = "whatsapp_on" -> "ON WHATSAPP:"
    [] b = "whatsapp_off" -> "NOT ON WHATSAPP:"
    [] b = "sms_on" -> "CAN RECEIVE SMS:"
    [] b = "sms_off" -> "SMS TRY AGAIN LATER:"
    [] b = "combo" -> "Numbers matching ALL conditions:"

PairBuckets == {"whatsapp_on", "whatsapp_off", "sms_on", "sms_off"}

KindOf(b) ==
  IF b \in {"whatsapp_on", "whatsapp_off"} THEN "whatsapp" ELSE "sms"

\* the lines of content that carry label
Positions(content, label) ==
  {p \in 1..Len(content) : content[p].label = label}

\* the numbers on the '+' lines that follow line p without a break
ListedAfter(content, p) ==
  LET q == CHOOSE q \in p..Len(content) :
             /\ \A r \in p + 1..q : content[r].label = "+"
             /\ q = Len(content) \/ content[q + 1].label # "+"
  IN  [n \in 1..q - p |-> content[p + n].items]

\* content has one section labelled for bucket b, listing list
HasSection(content, b, list) ==
  \E p \in 1..Len(content) :
    /\ Positions(content, BucketLabel(b)) = {p}
    /\ ListedAfter(content, p) = list

IsReport(c) == c.fn = "generate_result_file"

\* C15: generate_result_file returns a report whatever buckets are empty.
\* Without combo mode the report has a section labelled for bucket b exactly
\* when b's kind is enabled and results[b] is not empty, and the section
\* lists results[b] in order, each number after a '+'.  In combo mode the
\* report has the one combined section listing results['combo'], or the
\* line 'No numbers matched all conditions' when that bucket is empty.  No
\* number is listed outside a section.
C15_ReportListsBuckets ==
  IsReport(call) =>
    LET results == call.args[1]
        operations == call.args[2]
        content == call.value.content
        shown(b) == IF b = "combo" THEN operations.combo_mode
                    ELSE ~operations.combo_mode
                         /\ Enabled(operations, KindOf(b))
    IN  /\ \A b \in PairBuckets \cup {"combo"} :
             IF shown(b) /\ results[b] # <<>>
             THEN HasSection(content, b, results[b])
             ELSE Positions(content, BucketLabel(b)) = {}
        /\ Cardinality(Positions(content, "No numbers matched all conditions"))
             = IF operations.combo_mode /\ results.combo = <<>> THEN 1 ELSE 0
        /\ \A p \in Positions(content, "+") :
             /\ p > 1
             /\ \/ content[p - 1].label = "+"
                \/ \E b \in PairBuckets \cup {"combo"} :
                     content[p - 1].label = BucketLabel(b)

\* C15 witness: a report without combo mode where WhatsApp is enabled with
\* one empty bucket and SMS is disabled with numbers in its buckets
C15_Witness ==
  /\ IsReport(call)
  /\ ~call.args[2].combo_mode /\ call.args[2].whatsapp /\ ~call.args[2].sms
  /\ call.args[1].whatsapp_on = <<N3, N2>>
  /\ call.args[1].whatsapp_off = <<>>
  /\ call.args[1].sms_on = <<N1>>
  /\ HasSection(call.value.content, "whatsapp_on", <<N3, N2>>)

\* C16: within a batch every check is awaited before the bucketing of the
\* batch starts: once a number of the batch in progress has been added to
\* processed (and to its buckets), no check of that batch is still pending.
C16_ChecksAwaitedBeforeBucketing ==
  \A h \in Slots :
    LET f == handlers[h]
    IN  f.run = "running" /\ Len(f.results.processed) > f.i =>
          \A k \in 1..Len(f.batch_tasks) :
            /\ f.batch_tasks[k].whatsapp_task.state # "pending"
            /\ f.batch_tasks[k].sms_task.state # "pending"

\* the checks of the frame's run that are in flight
InFlight(f) ==
  {c \in (1..Len(f.batch_tasks)) \X Kinds :
     IF c[2] = "whatsapp"
     THEN f.batch_tasks[c[1]].whatsapp_task.state = "pending"
     ELSE f.batch_tasks[c[1]].sms_task.state = "pending"}

\* C17: within one run no check of the next batch is issued until every
\* check of the batch before it has finished, and the checks in flight are
\* those of one batch of at most 10 numbers: at most 10 times the number of
\* enabled kinds.
C17_OneBatchInFlight ==
  /\ [](\A h \in Slots :
          handlers[h].run = "running" =>
            /\ Len(handlers[h].batch_tasks) <= 10
            /\ Cardinality(InFlight(handlers[h])) <=
                 10 * Cardinality({kind \in Kinds :
                                    Enabled(OperationsOf(handlers[h]), kind)}))
  /\ [][\A h \in Slots :
          /\ handlers[h].run = "running" /\ handlers'[h].run = "running"
          /\ handlers'[h].i # handlers[h].i
          => InFlight(handlers[h]) = {}]_vars

\* C17 witness: the first batch of a run has been bucketed and the checks
\* of its second batch are in flight
C17_Witness ==
  \E h \in Slots :
    /\ handlers[h].run = "running"
    /\ handlers[h].i = batch_size
    /\ Len(handlers[h].results.processed) = batch_size
    /\ InFlight(handlers[h]) # {}

\* C18: from the moment a caller's processing flag is set until it is
\* cleared, no step of any handler invocation (a text message, one that
\* names operations included, a button callback, an upload, or a step of the
\* run itself) changes that caller's operations.
C18_OperationsFixedWhileProcessing ==
  [][\A u \in Users :
       Known(u) /\ user_sessions[u].processing =>
         user_sessions'[u].operations = user_sessions[u].operations]_vars

\* C18 witness: a caller who had chosen operations of their own was told to
\* wait during a run that has now returned with its report rendered
C18_Witness ==
  \E h \in Slots :
    /\ JustReturned(handlers[h])
    /\ handlers[h].file_buffer # None
    /\ OperationsOf(handlers[h]) # DefaultOperations
    /\ user_sessions[handlers[h].user_id].processing
    /\ last_reply[handlers[h].user_id] = "wait"

\* C19: while process_numbers runs, between the commits of two numbers,
\* and when it has returned, stats[b] is the length of results[b] for each
\* of the five buckets b, and stats['total'] is the length of the input.
C19_StatsCountResults ==
  \A h \in Slots :
    LET f == handlers[h]
    IN  f.run \in {"running", "returned"} =>
          /\ \A b \in PairBuckets \cup {"combo"} :
               f.stats[b] = Len(f.results[b])
          /\ f.stats.total = Len(f.numbers)

\* C19 witness: a run over two numbers or more is suspended after the commit
\* of its first number, which went to a bucket
C19_Witness ==
  \E h \in Slots :
    /\ handlers[h].run = "running"
    /\ handlers[h].stats.total >= 2
    /\ Len(handlers[h].results.processed) = 1
    /\ handlers[h].stats.whatsapp_on = 1
    /\ handlers[h].stats.sms_off = 1

\* C20: without combo mode, when process_numbers has returned, for an
\* enabled kind of polarity 'on' the <kind>_on bucket holds exactly the input
\* numbers whose status is true, each once, and <kind>_off is empty; for
\* polarity 'off' the <kind>_off bucket holds exactly the input numbers
\* whose status is false, each once, and <kind>_on is empty.
C20_PolarityFiltersBuckets ==
  \A h \in Slots :
    LET f == handlers[h]
        with(kind, status) ==
          {number \in Range(f.numbers) : StatusOf(f, number, kind) = status}
        holds(bucket, set) ==
          Range(bucket) = set /\ Len(bucket) = Cardinality(set)
    IN  JustReturned(f) /\ ~OperationsOf(f).combo_mode =>
          \A kind \in Kinds :
            Enabled(OperationsOf(f), kind) =>
              /\ TypeOf(OperationsOf(f), kind) = "on" =>
                   /\ holds(OnBucket(f, kind), with(kind, TRUE))
                   /\ OffBucket(f, kind) = <<>>
              /\ TypeOf(OperationsOf(f), kind) = "off" =>
                   /\ holds(OffBucket(f, kind), with(kind, FALSE))
                   /\ OnBucket(f, kind) = <<>>

\* C20 witness: a run over two numbers has returned with WhatsApp of
\* polarity 'on' and SMS of polarity 'off', one number in whatsapp_on and
\* two in sms_off
C20_Witness ==
  \E h \in Slots :
    LET f == handlers[h]
    IN  /\ JustReturned(f)
        /\ ~OperationsOf(f).combo_mode
        /\ OperationsOf(f).whatsapp /\ OperationsOf(f).whatsapp_type = "on"
        /\ OperationsOf(f).sms /\ OperationsOf(f).sms_type = "off"
        /\ Len(f.numbers) = 2
        /\ Len(f.results.whatsapp_on) = 1
        /\ Len(f.results.sms_off) = 2

\* C21: in a run, each number of the batch in progress has one task_info,
\* at its place in the batch, with one check task for each enabled kind and
\* none for a disabled kind; the processed record of a number holds an
\* outcome for a kind iff the kind is enabled, and that outcome is what the
\* check task created for that number returned.  When the run has just
\* returned every input number has its record.
C21_OneCheckPerNumberAndKind ==
  \A h \in Slots :
    LET f == handlers[h]
        operations == OperationsOf(f)
        processed == f.results.processed
    IN  f.run = "running" \/ JustReturned(f) =>
          /\ Len(f.batch_tasks) = Min(10, Len(f.numbers) - f.i)
          /\ \A k \in 1..Len(f.batch_tasks) :
               LET task_info == f.batch_tasks[k]
               IN  /\ task_info.number = f.numbers[f.i + k]
                   /\ task_info.whatsapp_task.state = "absent"
                        <=> ~operations.whatsapp
                   /\ task_info.sms_task.state = "absent" <=> ~operations.sms
          /\ JustReturned(f) => Len(processed) = Len(f.numbers)
          /\ \A n \in 1..Len(processed) :
               /\ processed[n].number = f.numbers[n]
               /\ processed[n].whatsapp # None <=> operations.whatsapp
               /\ processed[n].sms # None <=> operations.sms
               /\ n > f.i /\ operations.whatsapp =>
                    LET task == f.batch_tasks[n - f.i].whatsapp_task
                    IN  /\ task.state = "done"
                        /\ processed[n].whatsapp.status = task.value[1]
                        /\ processed[n].whatsapp.message = task.value[2]
               /\ n > f.i /\ operations.sms =>
                    LET task == f.batch_tasks[n - f.i].sms_task
                    IN  /\ task.state = "done"
                        /\ processed[n].sms.status = task.value[1]
                        /\ processed[n].sms.message = task.value[2]
                        /\ processed[n].sms.wait_time = task.value[3]

\* C21 witness: a run with SMS disabled has returned with two records whose
\* WhatsApp outcomes differ
C21_Witness ==
  \E h \in Slots :
    LET f == handlers[h]
    IN  /\ JustReturned(f)
        /\ OperationsOf(f).whatsapp /\ ~OperationsOf(f).sms
        /\ Len(f.results.processed) = 2
        /\ f.results.processed[1].whatsapp.status
        /\ ~f.results.processed[2].whatsapp.status
        /\ f.results.processed[2].sms = None

\* C22: while a run goes on, and when it returns, no step lowers the count
\* or the length of a bucket or the number of processed records; between
\* two batches the processed records are those of the batches done so far,
\* a multiple of 10, and after the last batch those of the whole input.
C22_CountsGrowByBatch ==
  /\ [](\A h \in Slots :
          LET f == handlers[h]
          IN  /\ f.run = "running" /\ f.pc = "sleep" =>
                   /\ Len(f.results.processed) = f.i + 10
                   /\ Len(f.results.processed) % 10 = 0
              /\ f.run = "running" => Len(f.results.processed) >= f.i
              /\ JustReturned(f) =>
                   Len(f.results.processed) = Len(f.numbers))
  /\ [][\A h \in Slots :
          /\ handlers[h].run = "running"
          /\ handlers'[h].run \in {"running", "returned"}
          => /\ Len(handlers'[h].results.processed)
                  >= Len(handlers[h].results.processed)
             /\ \A b \in PairBuckets \cup {"combo"} :
                  /\ handlers'[h].stats[b] >= handlers[h].stats[b]
                  /\ Len(handlers'[h].results[b])
                       >= Len(handlers[h].results[b])]_vars

\* C22 witness: a run of 12 numbers sleeps between its two batches with 10
\* records and some numbers in a bucket
C22_Witness ==
  \E h \in Slots :
    /\ handlers[h].run = "running"
    /\ handlers[h].pc = "sleep"
    /\ Len(handlers[h].numbers) = batch_size + 2
    /\ Len(handlers[h].results.processed) = batch_size
    /\ handlers[h].stats.whatsapp_on > 0

\* C23: when every awaited call returns or raises in the end, a caller's
\* processing flag that is set is cleared in the end, whichever way the
\* handler that set it leaves: no caller stays locked out.
C23_FlagEventuallyCleared ==
  \A u \in Users :
    (Known(u) /\ user_sessions[u].processing)
      ~> (Known(u) /\ ~user_sessions[u].processing)

\* C23 witness: a caller whose request was accepted is free again, no
\* handler left, after the error reply itself had raised
C23_Witness ==
  \E u \in Users :
    /\ Known(u)
    /\ user_sessions[u].last_activity > 0
    /\ ~user_sessions[u].processing
    /\ last_reply[u] = "error_occurred"
    /\ \A h \in Slots : Free(h)

\* C24: a text or document request that arrives while the caller's
\* processing flag is set leaves the caller's session as it was: the flag
\* set, the operations and last_activity unchanged.  And the flag of a caller
\* is cleared only in a step in which a handler of that caller ends.
C24_RejectionKeepsSession ==
  [][\A u \in Users :
       Known(u) /\ user_sessions[u].processing =>
         /\ \A h \in Slots :
              FirstFree(h) =>
                /\ \A input \in AllTextInputs :
                     handle_text_message(h, u, input[1], input[2]) =>
                       user_sessions'[u] = user_sessions[u]
                /\ \A document \in Documents :
                     handle_document(h, u, document) =>
                       user_sessions'[u] = user_sessions[u]
         /\ ~user_sessions'[u].processing =>
              \E h \in Slots :
                /\ handlers[h].user_id = u
                /\ handlers'[h] = IdleFrame]_vars

\* C24 witness: a caller whose upload is still being fetched, no run
\* started yet, has been told to wait and the flag is set
C24_Witness ==
  \E h \in Slots :
    /\ handlers[h].pc = "get_file"
    /\ handlers[h].run = "none"
    /\ user_sessions[handlers[h].user_id].processing
    /\ last_reply[handlers[h].user_id] = "wait"

\* C25: at every point of a run, and when it has returned, in combo mode
\* the four buckets of the kinds are empty, without combo mode the combo
\* bucket is empty, and the two buckets of a disabled kind are empty.
C25_ModesExclusive ==
  \A h \in Slots :
    LET f == handlers[h]
    IN  f.run \in {"running", "returned"} =>
          /\ OperationsOf(f).combo_mode =>
               \A b \in PairBuckets : f.results[b] = <<>>
          /\ ~OperationsOf(f).combo_mode => f.results.combo = <<>>
          /\ \A b \in PairBuckets :
               ~Enabled(OperationsOf(f), KindOf(b)) => f.results[b] = <<>>

\* C25 witness: a run in combo mode is suspended with one number recorded,
\* in the combo bucket
C25_Witness ==
  \E h \in Slots :
    /\ handlers[h].run = "running"
    /\ OperationsOf(handlers[h]).combo_mode
    /\ Len(handlers[h].results.processed) = 1
    /\ Len(handlers[h].results.combo) = 1

\* C26: in every session at least one kind is enabled, whatever operations
\* the caller has set so far.
C26_SomeKindEnabled ==
  \A u \in DOMAIN user_sessions :
    user_sessions[u].operations.whatsapp \/ user_sessions[u].operations.sms

====
